---------------------------- MODULE Spec2Model ----------------------------
(***************************************************************************)
(* Verification model of the D-Bus Structure codec (src/src/structure.rs)  *)
(* and of the bus address parser (src/zbus/src/address.rs).                *)
(*                                                                         *)
(* Strings are sequences of one-character strings, indexed from 1; the     *)
(* loops of the source keep their 0-based index i, so the character the    *)
(* source reads as signature[i..i + 1] is s[i + 1] here.                   *)
(***************************************************************************)
EXTENDS Integers, Sequences, FiniteSets, TLC

VARIABLES
    op,        \* the operations applied so far to the input of this run
    sig,       \* a signature string
    data,      \* a SharedData view: [bytes, pos]
    format,    \* the EncodingFormat
    value,     \* a Structure value: the sequence of its fields
    parts,     \* the pieces an address string is assembled from
    address,   \* an address string
    result,    \* the result of the signature operation or of from_str
    sliced,    \* the result of Structure::slice_data
    decoded,   \* the result of Structure::decode
    env,       \* the environment variables of the process, and its uid
    views,     \* the data.tail and data.head calls made so far
    name,      \* a bus name string
    bus_name   \* the result of BusName::try_from

vars == <<op, sig, data, format, value, parts, address, result, sliced, decoded, env, views, name, bus_name>>

-----------------------------------------------------------------------------
(* Bounds of the model. *)

MaxSigLen == 6        \* longest signature string given to the scanner
MaxRawSigLen == 5     \* longest signature string given to slice_data / decode
MaxDataLen == 10      \* longest raw data window
MaxPos == 1           \* largest absolute position of a raw data window
MaxFields == 2        \* most fields of one generated Structure
MaxNestedFields == 1  \* most fields of a Structure nested in a generated one
MaxOpts == 3          \* most comma-separated tokens of a generated address

-----------------------------------------------------------------------------
(* Strings. *)

RECURSIVE AllSeqs(_, _)
AllSeqs(S, n) ==
    IF n = 0 THEN {<<>>}
    ELSE LET shorter == AllSeqs(S, n - 1)
         IN  shorter \cup {Append(s, c) : s \in {t \in shorter : Len(t) = n - 1}, c \in S}

StartsWith(s, c) == Len(s) > 0 /\ s[1] = c

EndsWith(s, c) == Len(s) > 0 /\ s[Len(s)] = c

\* &s[i..] of the source (0-based i, i <= len)
From(s, i) == SubSeq(s, i + 1, Len(s))

\* &s[i..j] of the source (0-based, i <= j <= len)
Slice(s, i, j) == SubSeq(s, i + 1, j)

-----------------------------------------------------------------------------
(* Results of the signature operations. *)

SigOk(s) == [tag |-> "Ok", val |-> s, err |-> ""]

SigErr(e) == [tag |-> "Err", val |-> <<>>, err |-> e]

\* a panic of the Rust runtime (a str slice out of range)
SigPanic == [tag |-> "Panic", val |-> <<>>, err |-> ""]

SigNone == [tag |-> "None", val |-> <<>>, err |-> ""]

\* the single-character types of the signature alphabet
BasicChars == {"y", "b", "n", "q", "i", "u", "x", "t", "d", "s", "o", "g", "v", "h"}

-----------------------------------------------------------------------------
(* Structure::slice_signature, src/src/structure.rs:139-164 *)

\* the while loop of lines 146-158: the value of i when the loop is left
RECURSIVE ScanBraces(_, _, _)
ScanBraces(s, i, open_braces) ==
    IF i >= Len(s) THEN i
    ELSE IF s[i + 1] = ")"
         THEN IF open_braces - 1 = 0 THEN i
              ELSE ScanBraces(s, i + 1, open_braces - 1)
         ELSE IF s[i + 1] = "("
              THEN ScanBraces(s, i + 1, open_braces + 1)
              ELSE ScanBraces(s, i + 1, open_braces)

\* a scanner that forgets to count nested openers
RECURSIVE ScanFirstCloser(_, _)
ScanFirstCloser(s, i) ==
    IF i >= Len(s) THEN i
    ELSE IF s[i + 1] = ")" THEN i ELSE ScanFirstCloser(s, i + 1)

StructSliceSignatureFlat(s) ==
    IF ~StartsWith(s, "(") THEN SigErr("IncorrectType")
    ELSE LET i == ScanFirstCloser(s, 1)
         IN  IF i + 1 > Len(s) THEN SigPanic
             ELSE IF s[i + 1] # ")" THEN SigErr("IncorrectType")
             ELSE SigOk(Slice(s, 0, i + 1))

StructSliceSignature(s) ==
    IF ~StartsWith(s, "(") THEN SigErr("IncorrectType")
    ELSE LET i == ScanBraces(s, 1, 1)
         IN  \* &signature[i..i + 1] panics when i + 1 exceeds the length
             IF i + 1 > Len(s) THEN SigPanic
             ELSE IF s[i + 1] # ")" THEN SigErr("IncorrectType")
             ELSE SigOk(Slice(s, 0, i + 1))

-----------------------------------------------------------------------------
(* crate::variant_type::slice_signature: the scanner that dispatches on    *)
(* the first character (spec.md, 4.1); its '(' case is the function above. *)

RECURSIVE SliceSignature(_)

\* the '{' case: a basic key, one complete value type, the closing '}'
DictEntrySliceSignature(s) ==
    IF Len(s) < 2 THEN SigErr("InsufficientData")
    ELSE IF s[2] \notin (BasicChars \ {"v"}) THEN SigErr("IncorrectType")
    ELSE LET r == SliceSignature(From(s, 2))
         IN  IF r.tag # "Ok" THEN r
             ELSE IF 2 + Len(r.val) >= Len(s) THEN SigErr("InsufficientData")
             ELSE IF s[2 + Len(r.val) + 1] # "}" THEN SigErr("IncorrectType")
             ELSE SigOk(Slice(s, 0, 2 + Len(r.val) + 1))

SliceSignature(s) ==
    IF Len(s) = 0 THEN SigErr("InsufficientData")
    ELSE IF s[1] \in BasicChars THEN SigOk(<<s[1]>>)
    ELSE IF s[1] = "a"
         THEN LET r == SliceSignature(From(s, 1))
              IN  IF r.tag = "Ok" THEN SigOk(<<"a">> \o r.val) ELSE r
    ELSE IF s[1] = "(" THEN StructSliceSignature(s)
    ELSE IF s[1] = "{" THEN DictEntrySliceSignature(s)
    ELSE SigErr("IncorrectType")

-----------------------------------------------------------------------------
(* Structure::ensure_correct_signature, src/src/structure.rs:115-128 *)

\* the while loop of lines 121-125; the child is sliced from signature[i..]
RECURSIVE EnsureChildren(_, _)
EnsureChildren(s, i) ==
    IF i < Len(s) - 1
    THEN LET child_signature == SliceSignature(From(s, i))
         IN  IF child_signature.tag # "Ok" THEN child_signature
             ELSE EnsureChildren(s, i + Len(child_signature.val))
    ELSE SigOk(<<>>)

EnsureCorrectSignature(s) ==
    IF ~StartsWith(s, "(") \/ ~EndsWith(s, ")") THEN SigErr("IncorrectType")
    ELSE EnsureChildren(s, 1)

-----------------------------------------------------------------------------
(* SharedData (spec.md, 3): a window of a shared buffer that remembers the *)
(* absolute position of its first byte.                                    *)

DataLen(d) == Len(d.bytes)

\* data.tail(n): the view that starts n bytes further on
DataTail(d, n) == [bytes |-> SubSeq(d.bytes, n + 1, Len(d.bytes)), pos |-> d.pos + n]

\* data.head(n): the view narrowed to its first n bytes
DataHead(d, n) == [bytes |-> SubSeq(d.bytes, 1, n), pos |-> d.pos]

\* VariantType::padding: the bytes to skip to reach the next multiple of align
Padding(pos, align) == (align - (pos % align)) % align

Zeros(n) == [k \in 1..n |-> 0]

-----------------------------------------------------------------------------
(* The fixed-width basic types (spec.md, 4.2 and 6). A Variant is a record *)
(* [t, n, fs]: its signature character, its number when basic, its fields  *)
(* when a structure.                                                       *)

Formats == {"DBus", "GVariant"}

\* 'b' is four bytes in the D-Bus format and a single byte in GVariant
BasicSize(c, fmt) ==
    CASE c = "y" -> 1
      [] c \in {"n", "q"} -> 2
      [] c \in {"i", "u", "h"} -> 4
      [] c = "b" -> IF fmt = "DBus" THEN 4 ELSE 1
      [] c \in {"x", "t", "d"} -> 8

BasicAlignment(c, fmt) == BasicSize(c, fmt)

FixedChars == {"y", "n", "q", "i", "u", "h", "b", "x", "t", "d"}

Pow256(k) == CASE k = 0 -> 1 [] k = 1 -> 256 [] k = 2 -> 65536 [] k = 3 -> 16777216

\* the little-endian bytes of n, size of them
ToBytes(n, size) == [k \in 1..size |-> (n \div Pow256(k - 1)) % 256]

RECURSIVE FromBytes(_)
FromBytes(bs) ==
    IF Len(bs) = 0 THEN 0 ELSE bs[1] + 256 * FromBytes(Tail(bs))

Basic(c, n) == [t |-> c, n |-> n, fs |-> <<>>]

Struct(fields) == [t |-> "(", n |-> 0, fs |-> fields]

-----------------------------------------------------------------------------
(* Results of slice_data and of decode. *)

SliceOk(n) == [tag |-> "Ok", len |-> n, err |-> ""]

SliceErr(e) == [tag |-> "Err", len |-> 0, err |-> e]

\* the error or panic r of a called function, as a result of slice_data
SliceFail(r) == [tag |-> r.tag, len |-> 0, err |-> r.err]

DecodeOk(fields, n) == [tag |-> "Ok", fields |-> fields, consumed |-> n, err |-> ""]

DecodeErr(e) == [tag |-> "Err", fields |-> <<>>, consumed |-> 0, err |-> e]

\* the error or panic r of a called function, as a result of decode
DecodeFail(r) == [tag |-> r.tag, fields |-> <<>>, consumed |-> 0, err |-> r.err]

-----------------------------------------------------------------------------
(* Structure: the constant of src/src/structure.rs:38 and slice_data,      *)
(* src/src/structure.rs:62-95.                                             *)

ALIGNMENT == 8

RECURSIVE StructSliceData(_, _, _), SliceDataChildren(_, _, _, _, _)

\* crate::variant_type::slice_data: the slice of one value of the type the
\* signature starts with
SliceData(d, child_signature, fmt) ==
    IF child_signature[1] \in FixedChars
    THEN LET padding == Padding(d.pos, BasicAlignment(child_signature[1], fmt))
             size == BasicSize(child_signature[1], fmt)
         IN  IF DataLen(d) < padding + size THEN SliceErr("InsufficientData")
             ELSE SliceOk(padding + size)
    ELSE IF child_signature[1] = "(" THEN StructSliceData(d, child_signature, fmt)
    ELSE SliceErr("IncorrectType")

\* the while loop of lines 76-89 and the lines 90-94 after it
SliceDataChildren(d, s, fmt, extracted, i) ==
    IF i < Len(s) - 1
    THEN LET child_signature == SliceSignature(Slice(s, i, Len(s) - 1))
         IN  IF child_signature.tag # "Ok" THEN SliceFail(child_signature)
             ELSE LET slice == SliceData(DataTail(d, extracted), child_signature.val, fmt)
                  IN  IF slice.tag # "Ok" THEN slice
                      ELSE IF extracted + slice.len > DataLen(d)
                           THEN SliceErr("InsufficientData")
                           ELSE SliceDataChildren(d, s, fmt, extracted + slice.len,
                                                  i + Len(child_signature.val))
    ELSE IF extracted = 0 THEN SliceErr("ExcessData")
    ELSE SliceOk(extracted)

\* slice_data with the length check of line 68 weakened to signature.len() < 2
StructSliceDataShortCheck(d, s, fmt) ==
    LET padding == Padding(d.pos, ALIGNMENT)
    IN  IF DataLen(d) < padding \/ Len(s) < 2 THEN SliceErr("InsufficientData")
        ELSE LET e == EnsureCorrectSignature(s)
             IN  IF e.tag # "Ok" THEN SliceFail(e)
                 ELSE SliceDataChildren(d, s, fmt, padding, 1)

\* slice_data that starts counting after the padding instead of with it
StructSliceDataNoPadding(d, s, fmt) ==
    LET padding == Padding(d.pos, ALIGNMENT)
    IN  IF DataLen(d) < padding \/ Len(s) < 3 THEN SliceErr("InsufficientData")
        ELSE LET e == EnsureCorrectSignature(s)
             IN  IF e.tag # "Ok" THEN SliceFail(e)
                 ELSE SliceDataChildren(DataTail(d, padding), s, fmt, 0, 1)

StructSliceData(d, s, fmt) ==
    LET padding == Padding(d.pos, ALIGNMENT)
    IN  IF DataLen(d) < padding \/ Len(s) < 3 THEN SliceErr("InsufficientData")
        ELSE LET e == EnsureCorrectSignature(s)
             IN  IF e.tag # "Ok" THEN SliceFail(e)
                 ELSE SliceDataChildren(d, s, fmt, padding, 1)

-----------------------------------------------------------------------------
(* Structure::decode, src/src/structure.rs:97-113, and                     *)
(* variants_from_struct_data, src/src/structure.rs:195-226. The consumed   *)
(* field of a decode result is the padding skipped plus the final value    *)
(* of the local variable extracted.                                        *)

RECURSIVE StructDecode(_, _, _), VariantsFromStructData(_, _, _, _, _, _)

\* Variant::from_data: the value of the type the signature starts with
FromData(d, child_signature, fmt) ==
    IF child_signature[1] \in FixedChars
    THEN LET padding == Padding(d.pos, BasicAlignment(child_signature[1], fmt))
             size == BasicSize(child_signature[1], fmt)
         IN  IF DataLen(d) < padding + size THEN DecodeErr("InsufficientData")
             ELSE DecodeOk(<<Basic(child_signature[1],
                                   FromBytes(SubSeq(d.bytes, padding + 1, padding + size)))>>,
                           padding + size)
    ELSE IF child_signature[1] = "("
         THEN LET r == StructDecode(d, child_signature, fmt)
              IN  IF r.tag # "Ok" THEN r
                  ELSE DecodeOk(<<Struct(r.fields)>>, r.consumed)
    ELSE DecodeErr("IncorrectType")

\* the while loop of lines 205-220 and the lines 221-225 after it
VariantsFromStructData(d, s, fmt, fields, extracted, i) ==
    IF i < Len(s) - 1
    THEN LET child_signature == SliceSignature(Slice(s, i, Len(s) - 1))
         IN  IF child_signature.tag # "Ok" THEN DecodeFail(child_signature)
             ELSE LET child_slice == SliceData(DataTail(d, extracted), child_signature.val, fmt)
                  IN  IF child_slice.tag # "Ok" THEN DecodeFail(child_slice)
                      ELSE IF extracted + child_slice.len > DataLen(d)
                           THEN DecodeErr("InsufficientData")
                           ELSE LET variant ==
                                        FromData(DataHead(DataTail(d, extracted), child_slice.len),
                                                 child_signature.val, fmt)
                                IN  IF variant.tag # "Ok" THEN variant
                                    ELSE VariantsFromStructData(d, s, fmt,
                                             fields \o variant.fields,
                                             extracted + child_slice.len,
                                             i + Len(child_signature.val))
    ELSE IF extracted = 0 THEN DecodeErr("ExcessData")
    ELSE DecodeOk(fields, extracted)

StructDecode(d, s, fmt) ==
    LET padding == Padding(d.pos, ALIGNMENT)
    IN  IF DataLen(d) < padding \/ Len(s) < 3 THEN DecodeErr("InsufficientData")
        ELSE LET e == EnsureCorrectSignature(s)
             IN  IF e.tag # "Ok" THEN DecodeFail(e)
                 ELSE LET encoding == DataTail(d, padding)
                          r == VariantsFromStructData(encoding, s, fmt, <<>>, 0, 1)
                      IN  IF r.tag # "Ok" THEN r
                          ELSE DecodeOk(r.fields, padding + r.consumed)

-----------------------------------------------------------------------------
(* The data.tail and data.head calls of slice_data, decode and             *)
(* variants_from_struct_data, those of the nested structures included.     *)
(* A call is recorded with the line it is made at, its argument, and the   *)
(* position and length of the view it is made on.                          *)

Call(line, d, n) == [line |-> line, arg |-> n, pos |-> d.pos, len |-> DataLen(d)]

RECURSIVE StructSliceDataCalls(_, _, _), SliceDataChildrenCalls(_, _, _, _, _)

\* the calls made below crate::variant_type::slice_data
SliceDataCalls(d, child_signature, fmt) ==
    IF child_signature[1] = "(" THEN StructSliceDataCalls(d, child_signature, fmt)
    ELSE {}

\* the calls of the while loop of lines 76-89 and of line 94
SliceDataChildrenCalls(d, s, fmt, extracted, i) ==
    IF i < Len(s) - 1
    THEN LET child_signature == SliceSignature(Slice(s, i, Len(s) - 1))
         IN  IF child_signature.tag # "Ok" THEN {}
             ELSE LET tail == DataTail(d, extracted)
                      slice == SliceData(tail, child_signature.val, fmt)
                  IN  {Call("slice_data:79", d, extracted)}
                      \cup SliceDataCalls(tail, child_signature.val, fmt)
                      \cup IF slice.tag # "Ok" \/ extracted + slice.len > DataLen(d)
                           THEN {}
                           ELSE SliceDataChildrenCalls(d, s, fmt, extracted + slice.len,
                                                       i + Len(child_signature.val))
    ELSE IF extracted = 0 THEN {}
    ELSE {Call("slice_data:94", d, extracted)}

\* the calls of slice_data without the data.len() < padding test of line 68
StructSliceDataCallsNoLenCheck(d, s, fmt) ==
    LET padding == Padding(d.pos, ALIGNMENT)
    IN  IF Len(s) < 3 \/ EnsureCorrectSignature(s).tag # "Ok" THEN {}
        ELSE SliceDataChildrenCalls(d, s, fmt, padding, 1)

\* the calls of slice_data, lines 62-95
StructSliceDataCalls(d, s, fmt) ==
    LET padding == Padding(d.pos, ALIGNMENT)
    IN  IF DataLen(d) < padding \/ Len(s) < 3 THEN {}
        ELSE IF EnsureCorrectSignature(s).tag # "Ok" THEN {}
        ELSE SliceDataChildrenCalls(d, s, fmt, padding, 1)

RECURSIVE StructDecodeCalls(_, _, _), VariantsFromStructDataCalls(_, _, _, _, _)

\* the calls made below Variant::from_data
FromDataCalls(d, child_signature, fmt) ==
    IF child_signature[1] = "(" THEN StructDecodeCalls(d, child_signature, fmt)
    ELSE {}

\* the calls of the while loop of lines 205-220
VariantsFromStructDataCalls(d, s, fmt, extracted, i) ==
    IF i < Len(s) - 1
    THEN LET child_signature == SliceSignature(Slice(s, i, Len(s) - 1))
         IN  IF child_signature.tag # "Ok" THEN {}
             ELSE LET tail == DataTail(d, extracted)
                      child_slice == SliceData(tail, child_signature.val, fmt)
                  IN  {Call("variants_from_struct_data:211", d, extracted)}
                      \cup SliceDataCalls(tail, child_signature.val, fmt)
                      \cup IF child_slice.tag # "Ok"
                              \/ extracted + child_slice.len > DataLen(d)
                           THEN {}
                           ELSE LET view == DataHead(tail, child_slice.len)
                                IN  FromDataCalls(view, child_signature.val, fmt)
                                    \cup IF FromData(view, child_signature.val, fmt).tag # "Ok"
                                         THEN {}
                                         ELSE VariantsFromStructDataCalls(d, s, fmt,
                                                  extracted + child_slice.len,
                                                  i + Len(child_signature.val))
    ELSE {}

\* the calls of decode, lines 97-113
StructDecodeCalls(d, s, fmt) ==
    LET padding == Padding(d.pos, ALIGNMENT)
    IN  IF DataLen(d) < padding \/ Len(s) < 3 THEN {}
        ELSE IF EnsureCorrectSignature(s).tag # "Ok" THEN {}
        ELSE {Call("decode:109", d, padding)}
             \cup VariantsFromStructDataCalls(DataTail(d, padding), s, fmt, 0, 1)

-----------------------------------------------------------------------------
(* Structure::encode_into, src/src/structure.rs:52-60, and                 *)
(* Structure::signature, src/src/structure.rs:130-137.                     *)

RECURSIVE StructEncodeInto(_, _, _), EncodeFields(_, _, _), StructSignature(_),
          FieldSignatures(_)

\* Variant::encode_value_into: the padding of the value, then its payload
EncodeValueInto(bytes, v, fmt) ==
    IF v.t = "(" THEN StructEncodeInto(bytes, v.fs, fmt)
    ELSE bytes \o Zeros(Padding(Len(bytes), BasicAlignment(v.t, fmt)))
               \o ToBytes(v.n, BasicSize(v.t, fmt))

\* the for loop of lines 57-59
EncodeFields(bytes, fields, fmt) ==
    IF Len(fields) = 0 THEN bytes
    ELSE EncodeFields(EncodeValueInto(bytes, Head(fields), fmt), Tail(fields), fmt)

\* encode_into without the add_padding call of line 53
StructEncodeIntoUnpadded(bytes, fields, fmt) == EncodeFields(bytes, fields, fmt)

StructEncodeInto(bytes, fields, fmt) ==
    EncodeFields(bytes \o Zeros(Padding(Len(bytes), ALIGNMENT)), fields, fmt)

\* Variant::value_signature
ValueSignature(v) == IF v.t = "(" THEN StructSignature(v.fs) ELSE <<v.t>>

\* the for loop of lines 132-134
FieldSignatures(fields) ==
    IF Len(fields) = 0 THEN <<>>
    ELSE ValueSignature(Head(fields)) \o FieldSignatures(Tail(fields))

StructSignature(fields) == <<"(">> \o FieldSignatures(fields) \o <<")">>

-----------------------------------------------------------------------------
(* The grammar of complete types (spec.md, 3 and 4.1), written as a        *)
(* recogniser that does not share code with the scanners above.            *)

RECURSIVE TypeEnd(_, _), FieldsEnd(_, _)

\* the 0-based index just after the complete type that starts at index i,
\* or -1 when no complete type starts there
TypeEnd(s, i) ==
    IF i >= Len(s) THEN -1
    ELSE LET c == s[i + 1]
         IN  IF c \in BasicChars THEN i + 1
             ELSE IF c = "a"
                  THEN IF i + 1 < Len(s) /\ s[i + 2] = "{"
                       THEN IF i + 2 < Len(s) /\ s[i + 3] \in (BasicChars \ {"v"})
                            THEN LET e == TypeEnd(s, i + 3)
                                 IN  IF e # -1 /\ e < Len(s) /\ s[e + 1] = "}"
                                     THEN e + 1 ELSE -1
                            ELSE -1
                       ELSE TypeEnd(s, i + 1)
             ELSE IF c = "("
                  THEN LET j == FieldsEnd(s, i + 1)
                       IN  IF j > i + 1 /\ j < Len(s) /\ s[j + 1] = ")"
                           THEN j + 1 ELSE -1
             ELSE -1

\* the index just after the longest run of complete types that starts at i
FieldsEnd(s, i) ==
    LET e == TypeEnd(s, i) IN IF e = -1 THEN i ELSE FieldsEnd(s, e)

\* s is exactly one complete structure type
IsStructSig(s) == StartsWith(s, "(") /\ TypeEnd(s, 0) = Len(s)

\* openers minus closers among the first k characters of s
Depth(s, k) ==
    Cardinality({j \in 1..k : s[j] = "("}) - Cardinality({j \in 1..k : s[j] = ")"})

\* the positions at which the leading '(' of s is closed
Closers(s) == {k \in 2..Len(s) : s[k] = ")" /\ Depth(s, k) = 0}

Min(S) == CHOOSE m \in S : \A n \in S : m <= n

-----------------------------------------------------------------------------
(* Values that stand for "not used in this run" and "not computed yet". *)

NoData == [bytes |-> <<>>, pos |-> 0]

NoParts == [transport |-> <<>>, colon |-> FALSE, opts |-> <<>>]

SliceNone == [tag |-> "None", len |-> 0, err |-> ""]

DecodeNone == [tag |-> "None", fields |-> <<>>, consumed |-> 0, err |-> ""]

EnvUnset == [state |-> "unset", val |-> <<>>]

NoEnv == [session |-> EnvUnset, system |-> EnvUnset, runtime_dir |-> EnvUnset, uid |-> <<>>]

BusNone == [tag |-> "None", variant |-> "", name |-> <<>>, kind |-> "", errs |-> <<>>]

-----------------------------------------------------------------------------
(* The signature scanner applied to every short string. *)

SigAlphabet == {"(", ")", "y", "a", "{", "}"}

SigStrings == AllSeqs(SigAlphabet, MaxSigLen)

InitSig ==
    /\ op = "input"
    /\ sig \in SigStrings
    /\ data = NoData
    /\ format = "DBus"
    /\ value = <<>>
    /\ parts = NoParts
    /\ address = <<>>
    /\ result = SigNone
    /\ sliced = SliceNone
    /\ decoded = DecodeNone
    /\ env = NoEnv
    /\ views = {}
    /\ name = <<>>
    /\ bus_name = BusNone

DoSliceSignature ==
    /\ op = "input"
    /\ op' = "slice_signature"
    /\ result' = StructSliceSignature(sig)
    /\ UNCHANGED <<sig, data, format, value, parts, address, sliced, decoded, env, views, name, bus_name>>

DoEnsureCorrectSignature ==
    /\ op = "input"
    /\ op' = "ensure_correct_signature"
    /\ result' = EnsureCorrectSignature(sig)
    /\ UNCHANGED <<sig, data, format, value, parts, address, sliced, decoded, env, views, name, bus_name>>

NextSig == DoSliceSignature \/ DoEnsureCorrectSignature

SpecSig == InitSig /\ [][NextSig]_vars

-----------------------------------------------------------------------------
(* Claims about the signature operations, checked under SpecSig. *)

\* C3: ensure_correct_signature returns Ok only when the whole string is
\* exactly one complete structure type, and IncorrectType for every other
\* string.
C3_EnsureExactlyStruct ==
    op = "ensure_correct_signature" =>
        /\ result.tag = "Ok" => IsStructSig(sig)
        /\ ~IsStructSig(sig) => result = SigErr("IncorrectType")

\* C4: slice_signature on an input that starts with '(' and has no ')'
\* closing that opener returns the IncorrectType error.
C4_UnclosedIsIncorrectType ==
    (op = "slice_signature" /\ StartsWith(sig, "(") /\ Closers(sig) = {}) =>
        result = SigErr("IncorrectType")

\* C5: when a prefix s of the input is one complete structure signature,
\* slice_signature returns exactly s, whatever follows it; a returned slice
\* ends at the first ')' at which the depth, 1 on the leading '(', is 0 again.
C5_SliceIsStructPrefix ==
    op = "slice_signature" =>
        /\ \A k \in 1..Len(sig) :
               IsStructSig(SubSeq(sig, 1, k)) => result = SigOk(SubSeq(sig, 1, k))
        /\ result.tag = "Ok" =>
               /\ Closers(sig) # {}
               /\ Len(result.val) = Min(Closers(sig))

C5_Witness ==
    /\ op = "slice_signature"
    /\ sig = <<"(", "(", "y", ")", ")", "(">>
    /\ result = SigOk(<<"(", "(", "y", ")", ")">>)

-----------------------------------------------------------------------------
(* The Structure codec applied to generated structures (encode, then       *)
(* slice_data and decode of the bytes written) and to raw windows of data  *)
(* with arbitrary signature strings.                                       *)

BasicValues == {Basic("y", 255), Basic("q", 258), Basic("b", 1)}

NestedStructs == {Struct(fs) : fs \in AllSeqs(BasicValues, MaxNestedFields)}

Structures == AllSeqs(BasicValues \cup NestedStructs, MaxFields)

RawAlphabet == {"(", ")", "y", "q"}

\* every string shorter than MaxRawSigLen, and of those of that length the
\* ones that start with '(' (the others are refused at line 116 alike)
RawSigs ==
    {s \in AllSeqs(RawAlphabet, MaxRawSigLen) : Len(s) < MaxRawSigLen \/ StartsWith(s, "(")}

RawData == {[bytes |-> [k \in 1..n |-> k], pos |-> p] : n \in 0..MaxDataLen, p \in 0..MaxPos}

InitCodec ==
    /\ format \in Formats
    /\ \/ op = "value" /\ value \in Structures /\ sig = <<>> /\ data = NoData
       \/ op = "raw" /\ value = <<>> /\ sig \in RawSigs /\ data \in RawData
    /\ parts = NoParts
    /\ address = <<>>
    /\ result = SigNone
    /\ sliced = SliceNone
    /\ decoded = DecodeNone
    /\ env = NoEnv
    /\ views = {}
    /\ name = <<>>
    /\ bus_name = BusNone

\* value.encode_into(&mut vec![], format), and value.signature()
DoEncode ==
    /\ op = "value"
    /\ op' = "encoded"
    /\ data' = [bytes |-> StructEncodeInto(<<>>, value, format), pos |-> 0]
    /\ sig' = StructSignature(value)
    /\ UNCHANGED <<format, value, parts, address, result, sliced, decoded, env, views, name, bus_name>>

DoSliceData ==
    /\ op \in {"encoded", "raw"}
    /\ sliced.tag = "None"
    /\ sliced' = StructSliceData(data, sig, format)
    /\ views' = views \cup StructSliceDataCalls(data, sig, format)
    /\ UNCHANGED <<op, sig, data, format, value, parts, address, result, decoded, env, name, bus_name>>

DoDecode ==
    /\ op \in {"encoded", "raw"}
    /\ decoded.tag = "None"
    /\ decoded' = StructDecode(data, sig, format)
    /\ views' = views \cup StructDecodeCalls(data, sig, format)
    /\ UNCHANGED <<op, sig, data, format, value, parts, address, result, sliced, env, name, bus_name>>

NextCodec == DoEncode \/ DoSliceData \/ DoDecode

SpecCodec == InitCodec /\ [][NextCodec]_vars

-----------------------------------------------------------------------------
(* Claims about the Structure codec, checked under SpecCodec. *)

\* every structure nested in the fields has at least one field
RECURSIVE NoEmptyStruct(_)
NoEmptyStruct(fields) ==
    \A k \in 1..Len(fields) :
        fields[k].t = "(" => (Len(fields[k].fs) > 0 /\ NoEmptyStruct(fields[k].fs))

\* decode and slice_data agree with the encoder on the bytes it wrote
RoundTrips ==
    /\ decoded.tag # "None" => (decoded.tag = "Ok" /\ decoded.fields = value)
    /\ sliced.tag # "None" => sliced = SliceOk(Len(data.bytes))

\* C1 as stated: for every Structure with at least one field and each
\* format, decoding the encoded bytes with the structure's signature yields
\* the same fields, and slice_data returns a slice of the encoded length.
C1_RoundTripAnyFields ==
    (op = "encoded" /\ Len(value) >= 1) => RoundTrips

\* C1 as amended: the same, for every Structure in which the structure
\* itself and every structure nested in it has at least one field.
C1_RoundTripNonEmpty ==
    (op = "encoded" /\ Len(value) >= 1 /\ NoEmptyStruct(value)) => RoundTrips

C1_Witness ==
    /\ op = "encoded"
    /\ format = "GVariant"
    /\ value = <<Basic("y", 255), Struct(<<Basic("q", 258)>>)>>
    /\ data.bytes = <<255, 0, 0, 0, 0, 0, 0, 0, 2, 1>>
    /\ decoded.tag = "Ok"
    /\ sliced.tag = "Ok"

\* C2: whenever slice_data succeeds with a slice of length L, decode on the
\* same data, signature and format succeeds too, and the padding it skips
\* plus the bytes its fields consume is L.
C2_DecodeConsumesSlice ==
    (sliced.tag = "Ok" /\ decoded.tag # "None") =>
        (decoded.tag = "Ok" /\ decoded.consumed = sliced.len)

C2_Witness ==
    /\ op = "raw"
    /\ sig = <<"(", "q", "y", ")">>
    /\ data.pos = 1
    /\ Len(data.bytes) = 10
    /\ sliced = SliceOk(10)
    /\ decoded.tag = "Ok"
    /\ decoded.consumed = 10

\* C6: slice_data and decode both reject the signature "()" with
\* InsufficientData, whatever the data and the format.
C6_EmptyStructInsufficientData ==
    sig = <<"(", ")">> =>
        /\ sliced.tag # "None" => sliced = SliceErr("InsufficientData")
        /\ decoded.tag # "None" => decoded = DecodeErr("InsufficientData")

C6_Witness ==
    /\ sig = <<"(", ")">>
    /\ data.pos = 0
    /\ Len(data.bytes) = 8
    /\ sliced = SliceErr("InsufficientData")
    /\ decoded = DecodeErr("InsufficientData")

\* C13: in every iteration of the child loops of slice_data and of
\* variants_from_struct_data the offset passed to data.tail is at most
\* data.len(), on success the length passed to data.head is at most
\* data.len(), and every view taken, in nested structures too, lies inside
\* the window of the input data.
C13_ViewsStayInWindow ==
    \A c \in views :
        /\ c.arg <= c.len
        /\ data.pos <= c.pos
        /\ c.pos + c.len <= data.pos + DataLen(data)

\* slice_data of "(qy)" on ten bytes at position 1 has skipped seven bytes
\* of padding, taken the tails at 7 and 9 and returned the head of 10
C13_Witness ==
    /\ op = "raw"
    /\ sig = <<"(", "q", "y", ")">>
    /\ sliced = SliceOk(10)
    /\ Call("slice_data:79", data, 7) \in views
    /\ Call("slice_data:79", data, 9) \in views
    /\ Call("slice_data:94", data, 10) \in views
    /\ data.pos = 1

-----------------------------------------------------------------------------
(* Address::from_str and its helpers, src/zbus/src/address.rs. An error    *)
(* is its message, with {} where format! inserts the argument arg; the     *)
(* backquotes of the source's messages are written as apostrophes.         *)

\* the literals the parser compares with
Unix == <<"u", "n", "i", "x">>
Tcp == <<"t", "c", "p">>
KeyPath == <<"p", "a", "t", "h">>
KeyAbstract == <<"a", "b", "s", "t", "r", "a", "c", "t">>
KeyHost == <<"h", "o", "s", "t">>
KeyPort == <<"p", "o", "r", "t">>
KeyBind == <<"b", "i", "n", "d">>
KeyFamily == <<"f", "a", "m", "i", "l", "y">>
Ipv4 == <<"i", "p", "v", "4">>
Ipv6 == <<"i", "p", "v", "6">>

AddrErr(m, a) ==
    [tag |-> "Err", kind |-> "", path |-> <<>>, host |-> <<>>, bind |-> "None",
     port |-> 0, family |-> "None", msg |-> m, arg |-> a]

AddrUnix(p) ==
    [tag |-> "Ok", kind |-> "Unix", path |-> p, host |-> <<>>, bind |-> "None",
     port |-> 0, family |-> "None", msg |-> "", arg |-> <<>>]

AddrTcp(h, p, f) ==
    [tag |-> "Ok", kind |-> "Tcp", path |-> <<>>, host |-> h, bind |-> "None",
     port |-> p, family |-> f, msg |-> "", arg |-> <<>>]

AddrNone ==
    [tag |-> "None", kind |-> "", path |-> <<>>, host |-> <<>>, bind |-> "None",
     port |-> 0, family |-> "None", msg |-> "", arg |-> <<>>]

\* str::find(c): the 0-based index of the first c in s, or -1
RECURSIVE FindFrom(_, _, _)
FindFrom(s, c, i) ==
    IF i >= Len(s) THEN -1
    ELSE IF s[i + 1] = c THEN i ELSE FindFrom(s, c, i + 1)

Find(s, c) == FindFrom(s, c, 0)

\* str::split(c): the pieces between the occurrences of c, at least one
RECURSIVE Split(_, _)
Split(s, c) ==
    LET at == Find(s, c)
    IN  IF at = -1 THEN <<s>>
        ELSE <<Slice(s, 0, at)>> \o Split(From(s, at + 1), c)

\* HashMap<&str, &str>: a function from the keys inserted to their values
EmptyMap == [k \in {} |-> <<>>]

MapInsert(m, k, v) == [x \in (DOMAIN m) \cup {k} |-> IF x = k THEN v ELSE m[x]]

Digits == <<"0", "1", "2", "3", "4", "5", "6", "7", "8", "9">>

IsDigit(c) == \E d \in 1..10 : Digits[d] = c

DigitValue(c) == (CHOOSE d \in 1..10 : Digits[d] = c) - 1

U16Max == 65535

\* str::parse::<u16>(): -1 for an Err (no digit, a character that is no
\* digit, a value above u16::MAX); one leading '+' is accepted
RECURSIVE ParseDigits(_, _, _)
ParseDigits(s, i, acc) ==
    IF i >= Len(s) THEN acc
    ELSE IF ~IsDigit(s[i + 1]) THEN -1
    ELSE IF acc * 10 + DigitValue(s[i + 1]) > U16Max THEN -1
    ELSE ParseDigits(s, i + 1, acc * 10 + DigitValue(s[i + 1]))

ParseU16(s) ==
    LET digits == IF StartsWith(s, "+") THEN Tail(s) ELSE s
    IN  IF Len(digits) = 0 THEN -1 ELSE ParseDigits(digits, 0, 0)

\* Address::from_unix, lines 99-118, with the two lookups in the other order
\* and no check that both keys are given
FromUnixPathFirst(opts) ==
    IF KeyPath \in DOMAIN opts THEN AddrUnix(opts[KeyPath])
    ELSE IF KeyAbstract \in DOMAIN opts THEN AddrUnix(<<"NUL">> \o opts[KeyAbstract])
    ELSE AddrErr("unix address is missing path or abstract", <<>>)

\* Address::from_unix, lines 99-118; "NUL" is the character '\0'
FromUnix(opts) ==
    IF KeyAbstract \in DOMAIN opts
    THEN IF KeyPath \in DOMAIN opts
         THEN AddrErr("'path' and 'abstract' cannot be specified together", <<>>)
         ELSE AddrUnix(<<"NUL">> \o opts[KeyAbstract])
    ELSE IF KeyPath \in DOMAIN opts THEN AddrUnix(opts[KeyPath])
    ELSE AddrErr("unix address is missing path or abstract", <<>>)

\* TcpAddressFamily::from_str, lines 151-164
TcpAddressFamilyFromStr(family) ==
    IF family = Ipv4 THEN AddrTcp(<<>>, 0, "Ipv4")
    ELSE IF family = Ipv6 THEN AddrTcp(<<>>, 0, "Ipv6")
    ELSE AddrErr("invalid tcp address 'family': {}", family)

\* Address::from_tcp, lines 121-148, with the family examined before the port
FromTcpFamilyFirst(opts) ==
    IF KeyBind \in DOMAIN opts THEN AddrErr("'bind' isn't yet supported", <<>>)
    ELSE IF KeyHost \notin DOMAIN opts THEN AddrErr("tcp address is missing 'host'", <<>>)
    ELSE LET family == IF KeyFamily \in DOMAIN opts
                       THEN TcpAddressFamilyFromStr(opts[KeyFamily])
                       ELSE AddrTcp(<<>>, 0, "None")
         IN  IF family.tag # "Ok" THEN family
             ELSE IF KeyPort \notin DOMAIN opts
                  THEN AddrErr("tcp address is missing 'port'", <<>>)
             ELSE IF ParseU16(opts[KeyPort]) = -1 THEN AddrErr("invalid tcp 'port'", <<>>)
             ELSE AddrTcp(opts[KeyHost], ParseU16(opts[KeyPort]), family.family)

\* Address::from_tcp, lines 121-148
FromTcp(opts) ==
    IF KeyBind \in DOMAIN opts THEN AddrErr("'bind' isn't yet supported", <<>>)
    ELSE IF KeyHost \notin DOMAIN opts THEN AddrErr("tcp address is missing 'host'", <<>>)
    ELSE IF KeyPort \notin DOMAIN opts THEN AddrErr("tcp address is missing 'port'", <<>>)
    ELSE LET port == ParseU16(opts[KeyPort])
         IN  IF port = -1 THEN AddrErr("invalid tcp 'port'", <<>>)
             ELSE LET family == IF KeyFamily \in DOMAIN opts
                                THEN TcpAddressFamilyFromStr(opts[KeyFamily])
                                ELSE AddrTcp(<<>>, 0, "None")
                  IN  IF family.tag # "Ok" THEN family
                      ELSE AddrTcp(opts[KeyHost], port, family.family)

\* the match of lines 189-196
Dispatch(transport, options) ==
    IF transport = Unix THEN FromUnix(options)
    ELSE IF transport = Tcp THEN FromTcp(options)
    ELSE AddrErr("unsupported transport '{}'", transport)

\* the for loop of lines 176-187 in which a repeated key replaces the earlier
\* value without an error
RECURSIVE ParseOptionsOverwrite(_, _, _, _)
ParseOptionsOverwrite(transport, tokens, n, options) ==
    IF n > Len(tokens) THEN Dispatch(transport, options)
    ELSE LET kv == tokens[n]
             eq == Find(kv, "=")
         IN  IF eq = -1 THEN AddrErr("missing = when parsing key/value", <<>>)
             ELSE ParseOptionsOverwrite(transport, tokens, n + 1,
                      MapInsert(options, Slice(kv, 0, eq), From(kv, eq + 1)))

\* the for loop of lines 176-187, then the match of lines 189-196
RECURSIVE ParseOptions(_, _, _, _)
ParseOptions(transport, tokens, n, options) ==
    IF n > Len(tokens) THEN Dispatch(transport, options)
    ELSE LET kv == tokens[n]
             eq == Find(kv, "=")
         IN  IF eq = -1 THEN AddrErr("missing = when parsing key/value", <<>>)
             ELSE LET k == Slice(kv, 0, eq)
                      v == From(kv, eq + 1)
                  IN  IF k \in DOMAIN options
                      THEN AddrErr("Key '{}' specified multiple times", k)
                      ELSE ParseOptions(transport, tokens, n + 1, MapInsert(options, k, v))

\* Address::from_str, lines 170-197, accepting every transport that starts
\* with "unix"
AddressFromStrPrefix(a) ==
    LET col == Find(a, ":")
    IN  IF col = -1 THEN AddrErr("address has no colon", <<>>)
        ELSE LET t == Slice(a, 0, col)
             IN  ParseOptions(IF Len(t) >= 4 /\ SubSeq(t, 1, 4) = Unix THEN Unix
                              ELSE IF Len(t) = 0 THEN Unix ELSE t,
                              Split(From(a, col + 1), ","), 1, EmptyMap)

\* Address::from_str, lines 170-197
AddressFromStr(a) ==
    LET col == Find(a, ":")
    IN  IF col = -1 THEN AddrErr("address has no colon", <<>>)
        ELSE ParseOptions(Slice(a, 0, col), Split(From(a, col + 1), ","), 1, EmptyMap)

-----------------------------------------------------------------------------
(* Address::from_str applied to addresses assembled from a transport       *)
(* prefix, an optional ':' and up to MaxOpts comma-separated tokens.       *)

Opt(k, v) == [key |-> k, eq |-> TRUE, val |-> v]

\* a token without '='
Bare(t) == [key |-> t, eq |-> FALSE, val |-> <<>>]

Transports == {<<>>, Unix, Tcp, <<"f", "o", "o">>, <<"u", "n", "i", "x", "s">>}

PortValues == {<<"4", "1", "4", "2">>, <<"6", "5", "5", "3", "6">>, <<"3", "2", "f">>}

FamilyValues == {Ipv4, Ipv6, <<"i", "p", "v", "7">>}

Tokens ==
    {Opt(KeyPath, <<"/", "t">>), Opt(KeyAbstract, <<"a", "=", ":">>),
     Opt(<<"g", "u", "i", "d">>, <<"1">>), Opt(KeyHost, <<"l", "o">>),
     Opt(KeyBind, <<"l", "o">>), Bare(<<"o", "p", "t">>), Bare(<<>>)}
    \cup {Opt(KeyPort, v) : v \in PortValues}
    \cup {Opt(KeyFamily, v) : v \in FamilyValues}

TokenText(t) == IF t.eq THEN t.key \o <<"=">> \o t.val ELSE t.key

RECURSIVE Join(_)
Join(ts) ==
    IF Len(ts) = 0 THEN <<>>
    ELSE IF Len(ts) = 1 THEN TokenText(ts[1])
    ELSE TokenText(ts[1]) \o <<",">> \o Join(Tail(ts))

AddressText(p) ==
    p.transport \o (IF p.colon THEN <<":">> ELSE <<>>) \o Join(p.opts)

InitAddr ==
    /\ op = "input"
    /\ parts \in [transport : Transports, colon : BOOLEAN, opts : AllSeqs(Tokens, MaxOpts)]
    /\ address = AddressText(parts)
    /\ sig = <<>>
    /\ data = NoData
    /\ format = "DBus"
    /\ value = <<>>
    /\ result = AddrNone
    /\ sliced = SliceNone
    /\ decoded = DecodeNone
    /\ env = NoEnv
    /\ views = {}
    /\ name = <<>>
    /\ bus_name = BusNone

DoFromStr ==
    /\ op = "input"
    /\ op' = "from_str"
    /\ result' = AddressFromStr(address)
    /\ UNCHANGED <<sig, data, format, value, parts, address, sliced, decoded, env, views, name, bus_name>>

NextAddr == DoFromStr

SpecAddr == InitAddr /\ [][NextAddr]_vars

-----------------------------------------------------------------------------
(* Claims about Address::from_str, checked under SpecAddr. The claims are  *)
(* stated on the pieces the address was assembled from; the parser sees    *)
(* only the assembled text.                                                *)

\* the comma-separated tokens after the first ':' of an address with a ':'
\* (no transport of the model holds a ':', no token a ','): the text after
\* the ':' of an address without options is one empty token
TokensOf(p) == IF Len(p.opts) = 0 THEN <<Bare(<<>>)>> ELSE p.opts

\* the tokens that have no '=' or repeat the key of an earlier token
BadTokens(ts) ==
    {i \in 1..Len(ts) : ~ts[i].eq \/ \E j \in 1..(i - 1) : ts[j].eq /\ ts[j].key = ts[i].key}

\* every token is key=value and no key is given twice
WellFormed(p) == p.colon /\ BadTokens(TokensOf(p)) = {}

HasKey(p, k) == \E i \in 1..Len(p.opts) : p.opts[i].key = k

ValueOf(p, k) == p.opts[CHOOSE i \in 1..Len(p.opts) : p.opts[i].key = k].val

\* C7: for an address with a ':', from_str fails at the first token after
\* the first ':' that has no '=' (missing =) or whose key repeats an earlier
\* key (specified multiple times), whatever the transport prefix is.
C7_FirstBadTokenFails ==
    (op = "from_str" /\ parts.colon /\ BadTokens(TokensOf(parts)) # {}) =>
        LET t == TokensOf(parts)[Min(BadTokens(TokensOf(parts)))]
        IN  result = IF ~t.eq THEN AddrErr("missing = when parsing key/value", <<>>)
                     ELSE AddrErr("Key '{}' specified multiple times", t.key)

C7_Witness ==
    /\ op = "from_str"
    /\ parts.colon
    /\ parts.transport = <<"f", "o", "o">>
    /\ Len(parts.opts) = 3
    /\ parts.opts[1] = Opt(KeyPort, <<"3", "2", "f">>)
    /\ parts.opts[2] = Opt(KeyPort, <<"4", "1", "4", "2">>)
    /\ parts.opts[3] = Bare(<<"o", "p", "t">>)
    /\ result = AddrErr("Key '{}' specified multiple times", KeyPort)

\* C8: from_str returns an Address only when the text before the first ':'
\* is exactly "unix" or "tcp"; an input without ':' fails with "address has
\* no colon"; well-formed options after any other prefix, the empty prefix
\* included, fail with "unsupported transport".
C8_OnlyUnixOrTcp ==
    op = "from_str" =>
        /\ (\A k \in 1..Len(address) : address[k] # ":") =>
               result = AddrErr("address has no colon", <<>>)
        /\ result.tag = "Ok" =>
               \E k \in 1..Len(address) :
                   /\ address[k] = ":"
                   /\ \A j \in 1..(k - 1) : address[j] # ":"
                   /\ SubSeq(address, 1, k - 1) \in {Unix, Tcp}
        /\ (WellFormed(parts) /\ parts.transport \notin {Unix, Tcp}) =>
               result = AddrErr("unsupported transport '{}'", parts.transport)

C8_Witness ==
    /\ op = "from_str"
    /\ parts.colon
    /\ parts.transport = <<>>
    /\ parts.opts = <<Opt(KeyPath, <<"/", "t">>)>>
    /\ result = AddrErr("unsupported transport '{}'", <<>>)

\* C9: a well-formed "unix:" address yields Unix(path) with only path,
\* Unix(NUL then abstract) with only abstract, the "cannot be specified
\* together" error with both, the "missing path or abstract" error with
\* neither; the other keys present do not change the result.
C9_UnixPathOrAbstract ==
    (op = "from_str" /\ parts.transport = Unix /\ WellFormed(parts)) =>
        result =
            IF HasKey(parts, KeyPath) /\ HasKey(parts, KeyAbstract)
            THEN AddrErr("'path' and 'abstract' cannot be specified together", <<>>)
            ELSE IF HasKey(parts, KeyPath) THEN AddrUnix(ValueOf(parts, KeyPath))
            ELSE IF HasKey(parts, KeyAbstract)
                 THEN AddrUnix(<<"NUL">> \o ValueOf(parts, KeyAbstract))
            ELSE AddrErr("unix address is missing path or abstract", <<>>)

C9_Witness ==
    /\ op = "from_str"
    /\ parts.transport = Unix
    /\ parts.opts = <<Opt(KeyHost, <<"l", "o">>), Opt(KeyAbstract, <<"a", "=", ":">>)>>
    /\ parts.colon
    /\ result = AddrUnix(<<"NUL", "a", "=", ":">>)

\* the number a port value of the model stands for, -1 when it is no u16
PortNumber(v) == IF v = <<"4", "1", "4", "2">> THEN 4142 ELSE -1

\* C10: a well-formed "tcp:" address reports the first failing check in the
\* order bind present, host missing, port missing, port no u16, family
\* neither ipv4 nor ipv6; when none fails the result is Tcp with the host,
\* the parsed port, no bind and the family given, if any.
C10_TcpChecksInOrder ==
    (op = "from_str" /\ parts.transport = Tcp /\ WellFormed(parts)) =>
        result =
            IF HasKey(parts, KeyBind) THEN AddrErr("'bind' isn't yet supported", <<>>)
            ELSE IF ~HasKey(parts, KeyHost)
                 THEN AddrErr("tcp address is missing 'host'", <<>>)
            ELSE IF ~HasKey(parts, KeyPort)
                 THEN AddrErr("tcp address is missing 'port'", <<>>)
            ELSE IF PortNumber(ValueOf(parts, KeyPort)) = -1
                 THEN AddrErr("invalid tcp 'port'", <<>>)
            ELSE IF HasKey(parts, KeyFamily) /\ ValueOf(parts, KeyFamily) \notin {Ipv4, Ipv6}
                 THEN AddrErr("invalid tcp address 'family': {}", ValueOf(parts, KeyFamily))
            ELSE AddrTcp(ValueOf(parts, KeyHost), PortNumber(ValueOf(parts, KeyPort)),
                         IF ~HasKey(parts, KeyFamily) THEN "None"
                         ELSE IF ValueOf(parts, KeyFamily) = Ipv4 THEN "Ipv4" ELSE "Ipv6")

C10_Witness ==
    /\ op = "from_str"
    /\ parts.transport = Tcp
    /\ parts.colon
    /\ parts.opts = <<Opt(KeyFamily, <<"i", "p", "v", "7">>), Opt(KeyHost, <<"l", "o">>),
                      Opt(KeyPort, <<"6", "5", "5", "3", "6">>)>>
    /\ result = AddrErr("invalid tcp 'port'", <<>>)

-----------------------------------------------------------------------------
(* Address::session and Address::system, src/zbus/src/address.rs:72-96.    *)
(* An environment variable is unset, set to text that is no Unicode, or    *)
(* set to a string; env::var gives Ok only in the last case.               *)

EnvSet(v) == [state |-> "set", val |-> v]

EnvNotUnicode == [state |-> "not_unicode", val |-> <<>>]

UnixPathPrefix == <<"u", "n", "i", "x", ":", "p", "a", "t", "h", "=">>

RunUserPrefix == <<"/", "r", "u", "n", "/", "u", "s", "e", "r", "/">>

BusSuffix == <<"/", "b", "u", "s">>

SystemBusSocket ==
    <<"/", "v", "a", "r", "/", "r", "u", "n", "/", "d", "b", "u", "s", "/">>
    \o <<"s", "y", "s", "t", "e", "m", "_", "b", "u", "s", "_", "s", "o", "c", "k", "e", "t">>

\* Address::session, lines 75-86
Session(e) ==
    IF e.session.state = "set" THEN AddressFromStr(e.session.val)
    ELSE LET runtime_dir == IF e.runtime_dir.state = "set" THEN e.runtime_dir.val
                            ELSE RunUserPrefix \o e.uid
             path == UnixPathPrefix \o runtime_dir \o BusSuffix
         IN  AddressFromStr(path)

\* Address::system, lines 91-96
System(e) ==
    IF e.system.state = "set" THEN AddressFromStr(e.system.val)
    ELSE AddressFromStr(UnixPathPrefix \o SystemBusSocket)

-----------------------------------------------------------------------------
(* Address::session and Address::system applied to every environment made  *)
(* of short addresses.                                                     *)

MaxEnvOpts == 1       \* most comma-separated tokens of an address in the environment

EnvTransports == {Unix, Tcp, <<"f", "o", "o">>}

EnvTokens ==
    {Opt(KeyPath, <<"/", "t">>), Opt(KeyHost, <<"l", "o">>),
     Opt(KeyPort, <<"4", "1", "4", "2">>), Bare(<<"o", "p", "t">>)}

EnvAddresses ==
    {AddressText(p) :
        p \in [transport : EnvTransports, colon : BOOLEAN, opts : AllSeqs(EnvTokens, MaxEnvOpts)]}

EnvVars == {EnvUnset, EnvNotUnicode} \cup {EnvSet(a) : a \in EnvAddresses}

InitEnv ==
    /\ op = "input"
    /\ env \in [session : EnvVars, system : EnvVars,
                runtime_dir : {EnvUnset, EnvNotUnicode, EnvSet(<<"/", "r">>)},
                uid : {<<"0">>, <<"1", "0", "0", "0">>}]
    /\ sig = <<>>
    /\ data = NoData
    /\ format = "DBus"
    /\ value = <<>>
    /\ parts = NoParts
    /\ address = <<>>
    /\ result = AddrNone
    /\ sliced = SliceNone
    /\ decoded = DecodeNone
    /\ views = {}
    /\ name = <<>>
    /\ bus_name = BusNone

DoSession ==
    /\ op = "input"
    /\ op' = "session"
    /\ result' = Session(env)
    /\ UNCHANGED <<sig, data, format, value, parts, address, sliced, decoded, env, views, name, bus_name>>

DoSystem ==
    /\ op = "input"
    /\ op' = "system"
    /\ result' = System(env)
    /\ UNCHANGED <<sig, data, format, value, parts, address, sliced, decoded, env, views, name, bus_name>>

NextEnv == DoSession \/ DoSystem

SpecEnv == InitEnv /\ [][NextEnv]_vars

-----------------------------------------------------------------------------
(* Claims about Address::session and Address::system, checked under        *)
(* SpecEnv.                                                                *)

\* the variable is set to a string that from_str accepts
Recognised(v) == v.state = "set" /\ AddressFromStr(v.val).tag = "Ok"

\* the runtime directory of the session fallback
RuntimeDir(e) ==
    IF e.runtime_dir.state = "set" THEN e.runtime_dir.val ELSE RunUserPrefix \o e.uid

\* C11: session() and system() return their fallback unix address
\* (<runtime dir>/bus, /var/run/dbus/system_bus_socket) whenever the
\* DBUS_*_BUS_ADDRESS variable is not set or holds a value that is not
\* recognised as an address.
C11_FallbackUnlessRecognised ==
    /\ (op = "session" /\ ~Recognised(env.session)) =>
           result = AddrUnix(RuntimeDir(env) \o BusSuffix)
    /\ (op = "system" /\ ~Recognised(env.system)) =>
           result = AddrUnix(SystemBusSocket)

\* the part of C11 the code keeps: the fallback when the variable gives no
\* string at all
C11_FallbackWhenNotSet ==
    /\ (op = "session" /\ env.session.state # "set") =>
           result = AddrUnix(RuntimeDir(env) \o BusSuffix)
    /\ (op = "system" /\ env.system.state # "set") =>
           result = AddrUnix(SystemBusSocket)

-----------------------------------------------------------------------------
(* Bus names, src/zbus/src/bus_name.rs. UniqueName::try_from and            *)
(* WellKnownName::try_from are the delegated validators; they follow the   *)
(* rules of the D-Bus names: elements separated by '.', at least two of    *)
(* them, none empty, made of letters, digits, '_' and '-', no leading      *)
(* digit in a well-known name, a leading ':' on a unique name, at most     *)
(* 255 bytes in all. A diagnostic names the first rule that fails.         *)

MaxNameLength == 255

Letters ==
    {"a", "b", "c", "d", "e", "f", "g", "h", "i", "j", "k", "l", "m", "n", "o", "p", "q", "r", "s", "t", "u", "v", "w", "x", "y", "z",
     "A", "B", "C", "D", "E", "F", "G", "H", "I", "J", "K", "L", "M", "N", "O", "P", "Q", "R", "S", "T", "U", "V", "W", "X", "Y", "Z"}

IsNameChar(c) == c \in Letters \/ IsDigit(c) \/ c = "_" \/ c = "-"

NameOk == [tag |-> "Ok", kind |-> "", err |-> ""]

NameErr(k, e) == [tag |-> "Err", kind |-> k, err |-> e]

\* the positions that bound the elements of n: before its first character,
\* at each '.', and after its last character
Cuts(n) == {0, Len(n) + 1} \cup {k \in 1..Len(n) : n[k] = "."}

\* the elements of n, the pieces between two neighbouring cuts
Elements(n) ==
    {SubSeq(n, a + 1, b - 1) :
        <<a, b>> \in {c \in Cuts(n) \X Cuts(n) :
                        c[1] < c[2] /\ ~\E k \in Cuts(n) : c[1] < k /\ k < c[2]}}

\* the first rule the elements of n break, "" when they break none
ElementsError(n, digit_start) ==
    IF Cardinality(Cuts(n)) - 1 < 2 THEN "fewer than two elements"
    ELSE IF <<>> \in Elements(n) THEN "empty element"
    ELSE IF \E e \in Elements(n) : \E j \in 1..Len(e) : ~IsNameChar(e[j])
         THEN "invalid character"
    ELSE IF ~digit_start /\ \E e \in Elements(n) : IsDigit(e[1])
         THEN "element starts with a digit"
    ELSE ""

UniqueNameTryFrom(n) ==
    LET e == IF n = <<>> THEN "unique: empty"
             ELSE IF Len(n) > MaxNameLength THEN "unique: too long"
             ELSE IF ~StartsWith(n, ":") THEN "unique: no leading colon"
             ELSE LET r == ElementsError(From(n, 1), TRUE)
                  IN  IF r = "" THEN "" ELSE "unique: " \o r
    IN  IF e = "" THEN NameOk ELSE NameErr("InvalidUniqueName", e)

WellKnownNameTryFrom(n) ==
    LET e == IF n = <<>> THEN "well-known: empty"
             ELSE IF Len(n) > MaxNameLength THEN "well-known: too long"
             ELSE LET r == ElementsError(n, FALSE)
                  IN  IF r = "" THEN "" ELSE "well-known: " \o r
    IN  IF e = "" THEN NameOk ELSE NameErr("InvalidWellKnownName", e)

BusOk(v, n) == [tag |-> "Ok", variant |-> v, name |-> n, kind |-> "", errs |-> <<>>]

BusErr(k, es) == [tag |-> "Err", variant |-> "", name |-> <<>>, kind |-> k, errs |-> es]

\* try_from that gives up after the unique-name validator
BusNameTryFromUniqueOnly(v) ==
    LET u == UniqueNameTryFrom(v)
    IN  IF u.tag = "Err" THEN BusErr(u.kind, <<u.err>>)
        ELSE BusOk("Unique", v)

\* impl TryFrom<&str> for BusName, lines 128-144
BusNameTryFrom(v) ==
    LET u == UniqueNameTryFrom(v)
    IN  IF u.tag = "Err" /\ u.kind = "InvalidUniqueName" THEN
            LET w == WellKnownNameTryFrom(v)
            IN  IF w.tag = "Err" /\ w.kind = "InvalidWellKnownName" THEN
                    BusErr("InvalidBusName", <<u.err, w.err>>)
                ELSE IF w.tag = "Err" THEN BusErr(w.kind, <<w.err>>)
                ELSE BusOk("WellKnown", v)
        ELSE IF u.tag = "Err" THEN BusErr(u.kind, <<u.err>>)
        ELSE BusOk("Unique", v)

-----------------------------------------------------------------------------
(* BusName::try_from applied to every short string over the characters     *)
(* that decide the classification, and to names around the length limit.   *)

MaxNameLen == 5       \* longest short name

NameAlphabet == {":", ".", "a", "1", "-"}

RECURSIVE Repeat(_, _)
Repeat(c, n) == IF n = 0 THEN <<>> ELSE <<c>> \o Repeat(c, n - 1)

\* "aaa...a.b" and ":aaa...a.b" of MaxNameLength - 1 .. MaxNameLength + 2 bytes
LongNames ==
    {p \o Repeat("a", k) \o <<".", "b">> :
        p \in {<<>>, <<":">>}, k \in (MaxNameLength - 3)..(MaxNameLength - 1)}

Names == AllSeqs(NameAlphabet, MaxNameLen) \cup LongNames

InitName ==
    /\ op = "input"
    /\ name \in Names
    /\ bus_name = BusNone
    /\ sig = <<>>
    /\ data = NoData
    /\ format = "DBus"
    /\ value = <<>>
    /\ parts = NoParts
    /\ address = <<>>
    /\ result = AddrNone
    /\ sliced = SliceNone
    /\ decoded = DecodeNone
    /\ env = NoEnv
    /\ views = {}

DoTryFrom ==
    /\ op = "input"
    /\ op' = "try_from"
    /\ bus_name' = BusNameTryFrom(name)
    /\ UNCHANGED <<sig, data, format, value, parts, address, result, sliced, decoded,
                   env, views, name>>

NextName == DoTryFrom

SpecName == InitName /\ [][NextName]_vars

-----------------------------------------------------------------------------
(* Claims about BusName::try_from, checked under SpecName.                 *)

\* C12: try_from returns Unique when the unique-name validator accepts the
\* input, otherwise WellKnown when the well-known-name validator accepts it,
\* otherwise InvalidBusName carrying the diagnostics of both validators, the
\* unique one first; every accepted input that starts with ':' is Unique and
\* every accepted input that does not is WellKnown.
C12_Classification ==
    op = "try_from" =>
        LET u == UniqueNameTryFrom(name)
            w == WellKnownNameTryFrom(name)
        IN  /\ u.tag = "Ok" => bus_name = BusOk("Unique", name)
            /\ (u.tag = "Err" /\ w.tag = "Ok") => bus_name = BusOk("WellKnown", name)
            /\ (u.tag = "Err" /\ w.tag = "Err") =>
                   /\ bus_name.tag = "Err"
                   /\ bus_name.kind = "InvalidBusName"
                   /\ bus_name.errs = <<u.err, w.err>>
            /\ bus_name.tag = "Ok" =>
                   (bus_name.variant = "Unique" <=> StartsWith(name, ":"))
            /\ bus_name.tag = "Ok" =>
                   (bus_name.variant = "WellKnown" <=> ~StartsWith(name, ":"))

\* a unique name whose first element starts with a digit, a well-known name
\* and a string neither validator accepts have all been classified
C12_Witness ==
    /\ op = "try_from"
    /\ name = <<":", "1", ".", "a">>
    /\ bus_name = BusOk("Unique", name)
    /\ BusNameTryFrom(<<"a", ".", "a">>) = BusOk("WellKnown", <<"a", ".", "a">>)
    /\ BusNameTryFrom(<<"1", ".", "a">>).kind = "InvalidBusName"

=============================================================================
